---- MODULE Spec2Model ----
(***************************************************************************)
(* DevFlow AI: the tool-calling orchestration loop (src/src/agent/graph.py)*)
(* with its tool validator, natural-time resolver and the two callers of   *)
(* run_agent (the /chat endpoint and the MCP chat_with_agent tool).        *)
(*                                                                         *)
(* Strings the code inspects character by character are sequences of       *)
(* one-character strings.  Numbers (Python floats) are integers counting   *)
(* hundredths.  A datetime is [d, m, s]: day number, minute of the day,    *)
(* second of the minute.                                                   *)
(***************************************************************************)
EXTENDS Integers, Sequences, FiniteSets, TLC

\* ------------------------------------------------------------------ bounds

\* requests (calls of run_agent) in one session
MaxRequests == 2
\* replies of one run that propose a batch of Batches
MaxRichReplies == 1
\* messages of a state a client sends back with its next request
MaxPrior == 4
\* pieces a response text handed to the classifier is made of
MaxParts == 3
\* open issues of one priority, and open pull requests, the tracker lists
MaxIssues == 1
MaxPulls == 1
\* tasks created in the task list before the workload is computed
MaxTasks == 2

\* ------------------------------------------------------- program constants

\* LangGraph's default recursion limit (super-steps per invoke): graph.py:959
\* calls agent_graph.invoke(state) with no config, so the default applies.
RecursionLimit == 25

\* get_github_workload reads at most the first 50 results of each search
\* (issues_search[:50], prs_search[:50])
SearchLimit == 50

\* ------------------------------------------------------------------ strings

UpperCase == <<"A","B","C","D","E","F","G","H","I","J","K","L","M",
               "N","O","P","Q","R","S","T","U","V","W","X","Y","Z">>
LowerCase == <<"a","b","c","d","e","f","g","h","i","j","k","l","m",
               "n","o","p","q","r","s","t","u","v","w","x","y","z">>
DigitChars == <<"0","1","2","3","4","5","6","7","8","9">>

IsDigit(c) == \E i \in 1..10 : DigitChars[i] = c
DigitVal(c) == (CHOOSE i \in 1..10 : DigitChars[i] = c) - 1

\* str.lower(), one character
LowerChar(c) ==
    IF \E i \in 1..26 : UpperCase[i] = c
    THEN LowerCase[CHOOSE i \in 1..26 : UpperCase[i] = c]
    ELSE c

\* str.lower()
Lower(s) == [i \in 1..Len(s) |-> LowerChar(s[i])]

RECURSIVE LStrip(_)
LStrip(s) == IF s # <<>> /\ Head(s) = " " THEN LStrip(Tail(s)) ELSE s

RECURSIVE RStrip(_)
RStrip(s) ==
    IF s # <<>> /\ s[Len(s)] = " " THEN RStrip(SubSeq(s, 1, Len(s) - 1)) ELSE s

\* str.strip()
Strip(s) == RStrip(LStrip(s))

\* s[i:i+len(p)] == p
HasAt(s, i, p) ==
    /\ i >= 1
    /\ i + Len(p) - 1 <= Len(s)
    /\ \A k \in 1..Len(p) : s[i + k - 1] = p[k]

\* p in s
Contains(s, p) == \E i \in 1..(Len(s) + 1) : HasAt(s, i, p)

\* the decimal digits of a natural number
RECURSIVE Digits(_)
Digits(n) ==
    IF n < 10 THEN <<DigitChars[n + 1]>>
    ELSE Digits(n \div 10) \o <<DigitChars[(n % 10) + 1]>>

TwoDigits(n) == <<DigitChars[(n \div 10) + 1], DigitChars[(n % 10) + 1]>>

\* int(s) for a string of digits
RECURSIVE IntOf(_)
IntOf(s) ==
    IF s = <<>> THEN 0
    ELSE 10 * IntOf(SubSeq(s, 1, Len(s) - 1)) + DigitVal(s[Len(s)])

\* the length of the longest run of digits of s that starts at i
RECURSIVE DigitRun(_, _)
DigitRun(s, i) ==
    IF i <= Len(s) /\ IsDigit(s[i]) THEN 1 + DigitRun(s, i + 1) ELSE 0

\* the length of the longest run of whitespace of s that starts at i
RECURSIVE SpaceRun(_, _)
SpaceRun(s, i) ==
    IF i <= Len(s) /\ s[i] = " " THEN 1 + SpaceRun(s, i + 1) ELSE 0

\* ------------------------------------------------------------ JSON values

\* An argument value as the model emits it: a string, a number or null.
Str(s) == [kind |-> "str", n |-> 0, s |-> s]
Num(n) == [kind |-> "num", n |-> n, s |-> <<>>]
Null == [kind |-> "null", n |-> 0, s |-> <<>>]

\* Python truthiness of a value
Truthy(v) ==
    CASE v.kind = "str" -> v.s # <<>>
      [] v.kind = "num" -> v.n # 0
      [] OTHER -> FALSE

\* args.get(k, default)
Get(args, k, default) == IF k \in DOMAIN args THEN args[k] ELSE default

\* args[k] = v
Put(args, k, v) ==
    [x \in (DOMAIN args) \cup {k} |-> IF x = k THEN v ELSE args[x]]

\* float(text) for the decimal texts D+, D+.D and D+.DD; anything else the
\* input sets hold ("", words) is a ValueError
ParseFloat(s) ==
    LET t == Strip(s)
        w == DigitRun(t, 1)
        f == DigitRun(t, w + 2)
    IN  IF w >= 1 /\ Len(t) = w
        THEN [raised |-> FALSE, n |-> 100 * IntOf(SubSeq(t, 1, w))]
        ELSE IF /\ w >= 1
                /\ Len(t) > w
                /\ t[w + 1] = "."
                /\ f \in 1..2
                /\ Len(t) = w + 1 + f
        THEN [raised |-> FALSE,
              n |-> 100 * IntOf(SubSeq(t, 1, w))
                    + (IF f = 1 THEN 10 ELSE 1) * IntOf(SubSeq(t, w + 2, Len(t)))]
        ELSE [raised |-> TRUE, n |-> 0]

\* float(v): a number is itself, a string is parsed, None is a TypeError
FloatOf(v) ==
    CASE v.kind = "num" -> [raised |-> FALSE, n |-> v.n]
      [] v.kind = "str" -> ParseFloat(v.s)
      [] OTHER -> [raised |-> TRUE, n |-> 0]

\* ------------------------------------------------------------------- time

\* dt + timedelta(minutes=k)
AddMinutes(dt, k) ==
    LET t == dt.m + k
    IN  [d |-> dt.d + (t \div 1440), m |-> t % 1440, s |-> dt.s]

\* dt + timedelta(days=k)
AddDays(dt, k) == [d |-> dt.d + k, m |-> dt.m, s |-> dt.s]

\* dt.replace(hour=h, minute=mi, second=0, microsecond=0)
Replace(dt, h, mi) == [d |-> dt.d, m |-> 60 * h + mi, s |-> 0]

\* a < b on datetimes
Before(a, b) ==
    \/ a.d < b.d
    \/ a.d = b.d /\ a.m < b.m
    \/ a.d = b.d /\ a.m = b.m /\ a.s < b.s

\* dt.isoformat(); the date part is rendered as the day number
Iso(dt) ==
    <<"D">> \o Digits(dt.d) \o <<"T">> \o TwoDigits(dt.m \div 60) \o <<":">>
        \o TwoDigits(dt.m % 60) \o <<":">> \o TwoDigits(dt.s)

\* --------------------------------------------------- natural-time resolver

\* the phrases of time_mapping
P_now == <<"n","o","w">>
P_in_an_hour == <<"i","n"," ","a","n"," ","h","o","u","r">>
P_in_2_hours == <<"i","n"," ","2"," ","h","o","u","r","s">>
P_after_lunch == <<"a","f","t","e","r"," ","l","u","n","c","h">>
P_lunch == <<"l","u","n","c","h">>
P_morning == <<"m","o","r","n","i","n","g">>
P_afternoon == <<"a","f","t","e","r","n","o","o","n">>
P_evening == <<"e","v","e","n","i","n","g">>
P_tonight == <<"t","o","n","i","g","h","t">>
P_tomorrow == <<"t","o","m","o","r","r","o","w">>
P_tomorrow_morning == P_tomorrow \o <<" ">> \o P_morning
P_tomorrow_afternoon == P_tomorrow \o <<" ">> \o P_afternoon
P_next_week == <<"n","e","x","t"," ","w","e","e","k">>

\* time_mapping: the table of exact phrases, built from now
time_mapping(now) ==
    { [k |-> P_now, v |-> now],
      [k |-> P_in_an_hour, v |-> AddMinutes(now, 60)],
      [k |-> P_in_2_hours, v |-> AddMinutes(now, 120)],
      [k |-> P_after_lunch, v |-> Replace(now, 13, 0)],
      [k |-> P_lunch, v |-> Replace(now, 12, 0)],
      [k |-> P_morning, v |-> Replace(now, 9, 0)],
      [k |-> P_afternoon, v |-> Replace(now, 14, 0)],
      [k |-> P_evening, v |-> Replace(now, 18, 0)],
      [k |-> P_tonight, v |-> Replace(now, 19, 0)],
      [k |-> P_tomorrow, v |-> Replace(AddDays(now, 1), 9, 0)],
      [k |-> P_tomorrow_morning, v |-> Replace(AddDays(now, 1), 9, 0)],
      [k |-> P_tomorrow_afternoon, v |-> Replace(AddDays(now, 1), 14, 0)],
      [k |-> P_next_week, v |-> Replace(AddDays(now, 7), 9, 0)] }

\* re.search(r'at (\d{1,2})(?::(\d{2}))?\s*(am|pm)?', s): the leftmost match,
\* each quantifier greedy; [found, hour, minute, period]
AtStarts(s) ==
    { i \in 1..Len(s) : HasAt(s, i, <<"a","t"," ">>) /\ DigitRun(s, i + 3) >= 1 }

\* the groups of the match that starts at i, the hour ending before j, the
\* minute present or not, the period (if any) starting at p
AtGroups(s, i, j, hasMin, p) ==
    [found |-> TRUE,
     hour |-> IntOf(SubSeq(s, i + 3, j - 1)),
     minute |-> IF hasMin THEN IntOf(SubSeq(s, j + 1, j + 2)) ELSE 0,
     period |-> IF HasAt(s, p, <<"a","m">>) THEN "am"
                ELSE IF HasAt(s, p, <<"p","m">>) THEN "pm" ELSE "none"]

AtFromMinute(s, i, j, hasMin, k) == AtGroups(s, i, j, hasMin, k + SpaceRun(s, k))

AtFromHour(s, i, j, hasMin) ==
    AtFromMinute(s, i, j, hasMin, IF hasMin THEN j + 3 ELSE j)

AtFrom(s, i, j) ==
    AtFromHour(s, i, j, j <= Len(s) /\ s[j] = ":" /\ DigitRun(s, j + 1) >= 2)

AtMatch(s) ==
    IF \E i \in 1..Len(s) : i \in AtStarts(s)
    THEN LET i == CHOOSE x \in AtStarts(s) : \A y \in AtStarts(s) : x <= y
         IN  AtFrom(s, i, i + 3 + (IF DigitRun(s, i + 3) >= 2 THEN 2 ELSE 1))
    ELSE [found |-> FALSE, hour |-> 0, minute |-> 0, period |-> "none"]

\* re.search(r'in (\d+)\s*(hour|minute)s?', s); [found, amount, unit]
InUnit(s, p) ==
    IF HasAt(s, p, <<"h","o","u","r">>) THEN "hour"
    ELSE IF HasAt(s, p, <<"m","i","n","u","t","e">>) THEN "minute"
    ELSE "none"

\* the unit of a match that starts at i with n digits
InUnitAt(s, i, n) == InUnit(s, i + 3 + n + SpaceRun(s, i + 3 + n))

InStarts(s) ==
    { i \in 1..Len(s) :
        /\ HasAt(s, i, <<"i","n"," ">>)
        /\ DigitRun(s, i + 3) >= 1
        /\ InUnitAt(s, i, DigitRun(s, i + 3)) # "none" }

InGroups(s, i, n) ==
    [found |-> TRUE,
     amount |-> IntOf(SubSeq(s, i + 3, i + 2 + n)),
     unit |-> InUnitAt(s, i, n)]

InMatch(s) ==
    IF \E i \in 1..Len(s) : i \in InStarts(s)
    THEN LET i == CHOOSE x \in InStarts(s) : \A y \in InStarts(s) : x <= y
         IN  InGroups(s, i, DigitRun(s, i + 3))
    ELSE [found |-> FALSE, amount |-> 0, unit |-> "none"]

Raised == [raised |-> TRUE, value |-> <<>>]
Returned(value) == [raised |-> FALSE, value |-> value]

\* the hour after the 12-hour conversion
Hour24(at) ==
    IF at.period = "pm" /\ at.hour < 12 THEN at.hour + 12
    ELSE IF at.period = "am" /\ at.hour = 12 THEN 0
    ELSE at.hour

\* a target that stays on today's date
RollForward_never(target, now) == target

\* target_time of the at-branch, rolled to tomorrow when it is before now
RollForward(target, now) ==
    IF Before(target, now) THEN AddDays(target, 1) ELSE target

\* the at-branch: replace() is a ValueError for an hour above 23 or a minute
\* above 59
AtBranch(hour, minute, now) ==
    IF hour > 23 \/ minute > 59 THEN Raised
    ELSE Returned(Iso(RollForward(Replace(now, hour, minute), now)))

\* the in-branch
InBranch(dur, now) ==
    Returned(Iso(AddMinutes(now, IF dur.unit = "hour" THEN 60 * dur.amount
                                 ELSE dur.amount)))

\* parse_natural_time after the table lookup missed
ParsePatterns(time_str, now, at, dur) ==
    IF at.found THEN AtBranch(Hour24(at), at.minute, now)
    ELSE IF dur.found THEN InBranch(dur, now)
    ELSE Returned(time_str)

\* parse_natural_time on the lowered, stripped phrase
ParseLowered(time_str, now) ==
    IF \E e \in time_mapping(now) : e.k = time_str
    THEN Returned(Iso((CHOOSE e \in time_mapping(now) : e.k = time_str).v))
    ELSE ParsePatterns(time_str, now, AtMatch(time_str), InMatch(time_str))

\* parse_natural_time(time_str) read at the clock value now.  A value that is
\* no string has no lower(): AttributeError.
parse_natural_time(v, now) ==
    IF v.kind # "str" THEN Raised ELSE ParseLowered(Strip(Lower(v.s)), now)

\* ---------------------------------------------------------- tool validator

T_create_calendar_event == "create_calendar_event"
T_create_task == "create_task"

Priorities ==
    { <<"l","o","w">>, <<"m","e","d","i","u","m">>, <<"h","i","g","h">>,
      <<"c","r","i","t","i","c","a","l">> }

Rejected(msg, args) == [ok |-> FALSE, error |-> msg, args |-> args]
Accepted(args) == [ok |-> TRUE, error |-> "", args |-> args]

\* a range check that excludes the upper end
CheckDuration_open(args, duration) ==
    IF duration < 25 \/ duration >= 1200
    THEN Rejected("Duration must be between 15 minutes and 12 hours", args)
    ELSE Accepted(args)

\* the range check on the converted duration; args holds the float
CheckDuration(args, duration) ==
    IF duration < 25 \/ duration > 1200
    THEN Rejected("Duration must be between 15 minutes and 12 hours", args)
    ELSE Accepted(args)

\* duration = float(duration); args["duration_hours"] = duration
ConvertDuration(args, duration) ==
    IF duration.raised THEN Rejected("Duration must be a valid number", args)
    ELSE CheckDuration(Put(args, "duration_hours", Num(duration.n)), duration.n)

\* duration = args.get("duration_hours", 1)
DefaultDuration(args) == Get(args, "duration_hours", Num(100))

\* args["start_time"] = parsed_time, then the duration checks
RewriteStart(args, parsed) ==
    IF parsed.raised THEN Rejected("Could not parse time", args)
    ELSE ConvertDuration(Put(args, "start_time", Str(parsed.value)),
                         FloatOf(DefaultDuration(args)))

\* validate_tool_call, the create_calendar_event branch
ValidateEvent(args, now) ==
    IF ~Truthy(Get(args, "summary", Null))
    THEN Rejected("Event title is required", args)
    ELSE RewriteStart(args, parse_natural_time(Get(args, "start_time", Str(<<>>)), now))

\* a conversion that also limits the hours to 12
ConvertHours_ranged(args, hours) ==
    IF hours.raised \/ hours.n > 1200
    THEN Rejected("Estimated hours must be a valid number", args)
    ELSE Accepted(Put(args, "estimated_hours", Num(hours.n)))

\* args["estimated_hours"] = float(args["estimated_hours"])
ConvertHours(args, hours) ==
    IF hours.raised THEN Rejected("Estimated hours must be a valid number", args)
    ELSE Accepted(Put(args, "estimated_hours", Num(hours.n)))

\* priority = args.get("priority", "medium")
DefaultPriority(args) == Get(args, "priority", Str(<<"m","e","d","i","u","m">>))

\* the priority check, then the estimated-hours conversion
CheckPriority(args, priority) ==
    IF ~(priority.kind = "str" /\ priority.s \in Priorities)
    THEN Rejected("Priority must be low, medium, high, or critical", args)
    ELSE IF "estimated_hours" \in DOMAIN args
    THEN ConvertHours(args, FloatOf(args["estimated_hours"]))
    ELSE Accepted(args)

\* validate_tool_call, the create_task branch
ValidateTask(args) ==
    IF ~Truthy(Get(args, "title", Null))
    THEN Rejected("Task title is required", args)
    ELSE CheckPriority(args, DefaultPriority(args))

\* validate_tool_call(tool_name, args): (is_valid, error_msg) and args as the
\* call leaves the dict it was given
validate_tool_call(tool_name, args, now) ==
    IF tool_name = T_create_calendar_event THEN ValidateEvent(args, now)
    ELSE IF tool_name = T_create_task THEN ValidateTask(args)
    ELSE Accepted(args)

\* ----------------------------------------------------- response classifier

\* Emoji are single tokens: CROSS, WARN and CHECK stand for the cross mark,
\* the warning sign and the check mark.
error_patterns ==
    <<
      <<"e","r","r","o","r">>, <<"f","a","i","l","e","d">>,
      <<"c","o","u","l","d"," ","n","o","t">>, <<"c","o","u","l","d","n","'","t">>,
      <<"u","n","a","b","l","e"," ","t","o">>, <<"n","o","t"," ","f","o","u","n","d">>,
      <<"i","n","v","a","l","i","d">>, <<"i","n","c","o","r","r","e","c","t">>,
      <<"CROSS">>, <<"c","a","n","n","o","t">>,
      <<"e","x","c","e","p","t","i","o","n">>, <<"c","r","a","s","h","e","d">>,
      <<"b","r","o","k","e","n">>
    >>

warning_patterns ==
    <<
      <<"b","l","o","c","k","e","d">>, <<"o","v","e","r","d","u","e">>,
      <<"h","i","g","h"," ","p","r","i","o","r","i","t","y">>, <<"u","r","g","e","n","t">>,
      <<"p","e","n","d","i","n","g">>, <<"a","t","t","e","n","t","i","o","n">>,
      <<"WARN">>, <<"l","i","m","i","t","e","d">>,
      <<"q","u","o","t","a">>, <<"e","x","c","e","e","d","e","d">>,
      <<"m","i","s","s","i","n","g">>, <<"i","n","c","o","m","p","l","e","t","e">>
    >>

success_patterns ==
    <<
      <<"c","r","e","a","t","e","d">>, <<"s","c","h","e","d","u","l","e","d">>,
      <<"c","o","m","p","l","e","t","e","d">>, <<"u","p","d","a","t","e","d">>,
      <<"d","e","l","e","t","e","d">>, <<"CHECK">>,
      <<"s","u","c","c","e","s","s","f","u","l","l","y">>, <<"d","o","n","e">>,
      <<"f","i","n","i","s","h","e","d">>, <<"s","a","v","e","d">>,
      <<"c","o","n","f","i","r","m","e","d">>, <<"a","d","d","e","d">>
    >>

\* any(pattern in text for pattern in patterns)
AnyIn(patterns, text) == \E i \in 1..Len(patterns) : Contains(text, patterns[i])

\* sum(1 for pattern in patterns if pattern in text)
CountIn(patterns, text) ==
    Cardinality({ i \in 1..Len(patterns) : Contains(text, patterns[i]) })

\* a classifier for which one warning keyword is enough
classify_output_single(response, tool_calls) ==
    LET response_lower == Lower(response)
    IN  IF AnyIn(error_patterns, response_lower) THEN "error"
        ELSE IF \E i \in 1..Len(tool_calls) : tool_calls[i].status = "invalid"
        THEN "error"
        ELSE IF CountIn(warning_patterns, response_lower) >= 1 THEN "warning"
        ELSE IF AnyIn(success_patterns, response_lower) THEN "success"
        ELSE IF \E i \in 1..Len(tool_calls) : tool_calls[i].status = "valid"
        THEN "success"
        ELSE "info"

\* classify_output(response, tool_calls)
classify_output(response, tool_calls) ==
    LET response_lower == Lower(response)
    IN  IF AnyIn(error_patterns, response_lower) THEN "error"
        ELSE IF \E i \in 1..Len(tool_calls) : tool_calls[i].status = "invalid"
        THEN "error"
        ELSE IF CountIn(warning_patterns, response_lower) >= 2 THEN "warning"
        ELSE IF AnyIn(success_patterns, response_lower) THEN "success"
        ELSE IF \E i \in 1..Len(tool_calls) : tool_calls[i].status = "valid"
        THEN "success"
        ELSE "info"

explicit_keywords ==
    <<
      <<"h","o","w"," ","a","m"," ","i"," ","d","o","i","n","g">>, <<"h","o","w"," ","b","u","s","y"," ","a","m"," ","i">>,
      <<"w","o","r","k","l","o","a","d">>, <<"e","f","f","o","r","t"," ","l","e","v","e","l">>,
      <<"a","n","a","l","y","z","e"," ","m","y"," ","s","c","h","e","d","u","l","e">>, <<"a","m"," ","i"," ","o","v","e","r","l","o","a","d","e","d">>,
      <<"s","h","o","w"," ","m","y"," ","w","o","r","k","l","o","a","d">>, <<"c","h","e","c","k"," ","m","y"," ","e","f","f","o","r","t">>,
      <<"h","o","w"," ","l","o","a","d","e","d"," ","a","m"," ","i">>, <<"s","c","h","e","d","u","l","e"," ","a","n","a","l","y","s","i","s">>
    >>

\* an effort check that every utterance passes
should_include_effort_analysis_always(text) == TRUE

\* should_include_effort_analysis(user_input)
should_include_effort_analysis(text) == AnyIn(explicit_keywords, Lower(text))

planning_keywords ==
    <<
      <<"p","l","a","n"," ","m","y"," ","d","a","y">>, <<"w","h","a","t"," ","d","o"," ","i"," ","h","a","v","e"," ","t","o","d","a","y">>,
      <<"d","a","i","l","y"," ","s","u","m","m","a","r","y">>, <<"t","o","d","a","y","'","s"," ","w","o","r","k">>,
      <<"s","h","o","w"," ","m","y"," ","s","c","h","e","d","u","l","e">>
    >>

\* a run_agent that sees no planning intent
is_planning_request_never(text) == FALSE

\* is_planning_request of run_agent
is_planning_request(text) == AnyIn(planning_keywords, Lower(text))

response_error_words ==
    <<
      <<"e","r","r","o","r">>, <<"f","a","i","l","e","d">>,
      <<"u","n","a","b","l","e">>, <<"e","x","c","e","p","t","i","o","n">>
    >>

response_warning_words ==
    <<
      <<"w","a","r","n","i","n","g">>, <<"c","a","u","t","i","o","n">>,
      <<"b","e"," ","c","a","r","e","f","u","l">>
    >>

response_success_words ==
    <<
      <<"d","o","n","e">>, <<"c","r","e","a","t","e","d">>,
      <<"a","d","d","e","d">>, <<"s","c","h","e","d","u","l","e","d">>,
      <<"s","u","c","c","e","s","s">>, <<"c","o","m","p","l","e","t","e","d">>
    >>

\* classify_response(text) of the serving boundary
classify_response(text) ==
    LET t == Lower(text)
    IN  IF AnyIn(response_error_words, t) THEN "error"
        ELSE IF AnyIn(response_warning_words, t) THEN "warning"
        ELSE IF AnyIn(response_success_words, t) THEN "success"
        ELSE "info"

\* ------------------------------------------------------------------ inputs

\* utterances: neither intent, a planning intent, an effort inquiry
U_hi == <<"h","i">>
U_plan == <<"P","l","a","n"," ","m","y"," ","d","a","y">>
U_busy == <<"h","o","w"," ","b","u","s","y"," ","a","m"," ","i">>
Utterances == {U_hi, U_plan, U_busy}

\* final answers of the model
A_ok == <<"H","e","r","e"," ","i","s"," ","y","o","u","r"," ","s","c","h","e","d","u","l","e">>
A_done == <<"T","a","s","k"," ","c","r","e","a","t","e","d">>
FinalTexts == {A_ok, A_done}

\* the clock values datetime.now() is read at
NowSet == { [d |-> 0, m |-> 540, s |-> 0], [d |-> 0, m |-> 960, s |-> 30] }

NoArgs == [k \in {} |-> Null]

\* proposed actions
C_task_plain == [name |-> T_create_task, args |-> [title |-> Str(<<"T">>)]]
C_task_full ==
    [name |-> T_create_task,
     args |-> [title |-> Str(<<"T">>), priority |-> Str(<<"h","i","g","h">>),
               estimated_hours |-> Str(<<"2">>)]]
C_task_untitled == [name |-> T_create_task, args |-> [title |-> Str(<<>>)]]
C_event ==
    [name |-> T_create_calendar_event,
     args |-> [summary |-> Str(<<"M">>), start_time |-> Str(P_tomorrow),
               duration_hours |-> Str(<<"1",".","5">>)]]
C_event_long ==
    [name |-> T_create_calendar_event,
     args |-> [summary |-> Str(<<"M">>), start_time |-> Str(<<"a","t"," ","3","p","m">>),
               duration_hours |-> Num(1250)]]
C_list == [name |-> "list_tasks", args |-> NoArgs]

\* a proposal: the calls of one reply, numbered in the order proposed
Numbered(calls) ==
    [i \in 1..Len(calls) |-> [id |-> i, name |-> calls[i].name, args |-> calls[i].args]]

\* the batches a reply may propose
Batches ==
    { Numbered(<<C_task_plain>>),
      Numbered(<<C_task_untitled>>),
      Numbered(<<C_event>>),
      Numbered(<<C_task_untitled, C_task_full>>),
      Numbered(<<C_task_plain, C_task_untitled>>),
      Numbered(<<C_event, C_task_full>>),
      Numbered(<<C_event_long, C_task_untitled>>) }

\* the batch of a model that keeps asking for one more action
ContinueBatch == Numbered(<<C_list>>)

\* -------------------------------------------------------------- messages

HumanMessage(text) ==
    [role |-> "human", content |-> text, tool_calls |-> <<>>, tool_call_id |-> 0]
SystemMessage(text) ==
    [role |-> "system", content |-> text, tool_calls |-> <<>>, tool_call_id |-> 0]
AIMessage(text, calls) ==
    [role |-> "ai", content |-> text, tool_calls |-> calls, tool_call_id |-> 0]
ToolMessage(text, id) ==
    [role |-> "tool", content |-> text, tool_calls |-> <<>>, tool_call_id |-> id]

\* the state dict run_agent builds when it is given none
NewState ==
    [messages |-> <<>>, tool_calls |-> <<>>, classification |-> "none",
     daily_summary |-> FALSE, effort_analysis |-> "none"]

NoResponse == [status |-> 0, classification |-> "none", response |-> <<>>]

VARIABLES
    pc,               \* where run_agent stands: idle, agent, tools, end, returned
    caller,           \* chat (the /chat endpoint), mcp (chat_with_agent), api
    user_input,       \* the utterance of the request
    include_analysis, \* the flag of the request
    state,            \* the dict the caller passed, mutated in place
    chan,             \* the graph's channels during invoke: messages, tool_calls
    steps,            \* super-steps the graph executed in this invoke
    result,           \* what run_agent returned
    proposed,         \* per reply of this run, what the model proposed
    executed,         \* per run of the tools node in this run, the calls it dispatched
    held,             \* the state the client got back and has not sent yet, if any
    http,             \* the /chat response of the request
    outcome,          \* how the request ended: ok, model_error, recursion_limit
    requests,         \* requests of the session so far
    rich,             \* replies of this run that proposed a batch of Batches
    v_in,             \* the input a function is applied to on its own
    v_out             \* what the function answered for v_in

vars ==
    <<pc, caller, user_input, include_analysis, state, chan, steps, result,
      outcome, proposed, executed, held, http, requests, rich, v_in, v_out>>

\* the variables of the session
session ==
    <<pc, caller, user_input, include_analysis, state, chan, steps, result,
      outcome, proposed, executed, held, http, requests, rich>>


\* the prefix of the error message run_agent appends, and the effort report
ErrorText == <<"CROSS"," ","*","*","E","r","r","o","r","*","*",":"," ">>
ReportText == <<"\n","REPORT">>

\* ------------------------------------------------------------- call_model

\* the ActionRecord call_model appends for one proposed call
RecordOf(tc, v) ==
    [tool |-> tc.name, args |-> v.args,
     status |-> IF v.ok THEN "valid" ELSE "invalid", error |-> v.error]

Record(tc, now) == RecordOf(tc, validate_tool_call(tc.name, tc.args, now))

\* tool_calls of call_model: one record per proposed call, in order
Records(calls, now) == [i \in 1..Len(calls) |-> Record(calls[i], now)]

\* validated_tool_calls of call_model: the calls as proposed that passed
Validated(calls, now) ==
    SelectSeq(calls, LAMBDA tc : validate_tool_call(tc.name, tc.args, now).ok)

\* response.tool_calls as call_model leaves it: replaced only when
\* validated_tool_calls is non-empty
KeepValidated(calls, validated_tool_calls) ==
    IF validated_tool_calls # <<>> THEN validated_tool_calls ELSE calls

ResponseToolCalls(calls, now) == KeepValidated(calls, Validated(calls, now))

\* call_model(state) for the reply the model gave: the new channel values
call_model(st, reply, now) ==
    [messages |-> st.messages
        \o <<AIMessage(reply.content, ResponseToolCalls(reply.tool_calls, now))>>,
     tool_calls |-> st.tool_calls \o Records(reply.tool_calls, now)]

\* variants of the conditional edge that ignore the last message
should_continue_end(messages) == "end"
should_continue_tools(messages) == "tools"

\* should_continue(state)
should_continue(messages) ==
    IF messages[Len(messages)].tool_calls # <<>> THEN "tools" ELSE "end"

\* ------------------------------------------------------------- tools node

\* the parameters without a default in the tool's signature
RequiredArgs(name) ==
    CASE name = T_create_task -> {"title", "priority", "estimated_hours"}
      [] name = T_create_calendar_event -> {"summary", "start_time", "duration_hours"}
      [] OTHER -> {}

\* what ToolNode answers for one call: the tool's text, or the schema error
\* when a required argument is missing
ToolResult(tc) ==
    IF RequiredArgs(tc.name) \subseteq DOMAIN tc.args
    THEN <<"RESULT">> ELSE <<"SCHEMA_ERROR">>

\* a tools node that appends the results in the reverse of the call order
ToolNodeMessages_reversed(messages) ==
    LET calls == messages[Len(messages)].tool_calls
    IN  [i \in 1..Len(calls) |->
            ToolMessage(ToolResult(calls[Len(calls) + 1 - i]), calls[Len(calls) + 1 - i].id)]

\* ToolNode: one ToolMessage per call of the last message, in its order
ToolNodeMessages(messages) ==
    LET calls == messages[Len(messages)].tool_calls
    IN  [i \in 1..Len(calls) |-> ToolMessage(ToolResult(calls[i]), calls[i].id)]

\* -------------------------------------------------------------- run_agent

\* a handler that catches only the recursion error
ExceptCatches_narrow(why) == why = "recursion_limit"

\* except Exception: every exception the loop raises is an Exception
ExceptCatches(why) == why \in {"model_error", "recursion_limit"}

\* the except branch of run_agent
ExceptBranch(st, ia) ==
    [st EXCEPT !.messages = @ \o <<SystemMessage(ErrorText)>>,
               !.classification = IF ia THEN "error" ELSE @]

\* the dict agent_graph.invoke returns: the channels of AgentState
InvokeResult(ch) ==
    [messages |-> ch.messages, tool_calls |-> ch.tool_calls,
     classification |-> "none", daily_summary |-> FALSE,
     effort_analysis |-> "none"]

\* result["messages"][-1].content += "\n" + effort_report
AppendReport(messages) ==
    [messages EXCEPT ![Len(messages)].content = @ \o ReportText]

\* run_agent after invoke returned: the post-loop enrichment
Enrich(res, text, ia) ==
    LET planning == is_planning_request(text)
        effort == should_include_effort_analysis(text) \/ planning
        content == res.messages[Len(res.messages)].content
    IN  IF ia \/ planning
        THEN [res EXCEPT
                !.daily_summary = TRUE,
                !.classification = classify_output(content, res.tool_calls),
                !.effort_analysis = IF effort THEN "computed" ELSE @,
                !.messages = IF effort THEN AppendReport(@) ELSE @]
        ELSE res

\* chat(request) after run_agent returned
ChatResponse(res) ==
    LET content == res.messages[Len(res.messages)].content
    IN  [status |-> 200, classification |-> classify_response(content),
         response |-> content]

\* what the caller does with the returned dict
Respond(cl, res) == IF cl = "chat" THEN ChatResponse(res) ELSE NoResponse
Keep(cl, res) == IF cl = "mcp" THEN held ELSE <<res>>

\* ---------------------------------------------------------------- actions

InitSession ==
    /\ pc = "idle"
    /\ caller = "none"
    /\ user_input = <<>>
    /\ include_analysis = FALSE
    /\ state = NewState
    /\ chan = [messages |-> <<>>, tool_calls |-> <<>>]
    /\ steps = 0
    /\ result = NewState
    /\ outcome = "none"
    /\ proposed = <<>>
    /\ executed = <<>>
    /\ held = <<>>
    /\ http = NoResponse
    /\ requests = 0
    /\ rich = 0

Init ==
    /\ InitSession
    /\ v_in = [call |-> C_list, now |-> [d |-> 0, m |-> 0, s |-> 0], done |-> TRUE]
    /\ v_out = Accepted(NoArgs)

\* run_agent(user_input, state, include_analysis) up to agent_graph.invoke.
\* /chat passes include_analysis=True and the client's state; chat_with_agent
\* passes neither; api is a direct call with a state and no analysis.
RunAgent(cl, text, prior) ==
    /\ pc \in {"idle", "returned", "raised"}
    /\ requests < MaxRequests
    /\ prior => /\ held # <<>>
                /\ Len(held[1].messages) <= MaxPrior
                /\ cl \in {"chat", "api"}
    /\ ~prior => cl \in {"chat", "mcp"}
    /\ LET st == IF prior THEN held[1] ELSE NewState
           st1 == [st EXCEPT !.messages = @ \o <<HumanMessage(text)>>]
       IN  /\ state' = st1
           /\ chan' = [messages |-> st1.messages, tool_calls |-> st1.tool_calls]
    /\ pc' = "agent"
    /\ caller' = cl
    /\ user_input' = text
    /\ include_analysis' = (cl = "chat")
    /\ steps' = 0
    /\ outcome' = "none"
    /\ proposed' = <<>>
    /\ executed' = <<>>
    /\ rich' = 0
    /\ http' = NoResponse
    /\ requests' = requests + 1
    /\ result' = NewState
    /\ held' = <<>>
    /\ UNCHANGED <<v_in, v_out>>

\* the replies the model may give at this Deciding step
Replies ==
    { [content |-> t, tool_calls |-> <<>>] : t \in FinalTexts }
    \cup (IF rich = 0
          THEN {[content |-> <<>>, tool_calls |-> ContinueBatch]} ELSE {})
    \cup (IF rich = Len(proposed) /\ rich < MaxRichReplies
          THEN {[content |-> <<>>, tool_calls |-> b] : b \in Batches} ELSE {})

\* a graph without a recursion limit
StepAllowed_unbounded(n) == TRUE

\* agent_graph.invoke(state) runs with the default recursion limit: a
\* super-step may run while fewer than RecursionLimit have run
StepAllowed(n) == n < RecursionLimit

\* the agent node: call_model, then the conditional edge should_continue
CallModel(reply, now) ==
    /\ pc = "agent"
    /\ StepAllowed(steps)
    /\ chan' = call_model(chan, reply, now)
    /\ pc' = should_continue(chan'.messages)
    /\ steps' = steps + 1
    /\ proposed' = Append(proposed,
           [content |-> reply.content, calls |-> reply.tool_calls,
            records |-> Records(reply.tool_calls, now)])
    /\ rich' = IF reply.tool_calls \in Batches THEN rich + 1 ELSE rich
    /\ UNCHANGED <<caller, user_input, include_analysis, state, result, outcome,
                   executed, held, http, requests, v_in, v_out>>

\* an exception leaves agent_graph.invoke: run_agent returns the state from
\* its except branch, or the exception reaches the caller (/chat answers it
\* with HTTP 500)
Failed(why) ==
    /\ outcome' = why
    /\ IF ExceptCatches(why)
       THEN /\ state' = ExceptBranch(state, include_analysis)
            /\ result' = state'
            /\ pc' = "returned"
            /\ held' = Keep(caller, result')
            /\ http' = Respond(caller, result')
       ELSE /\ pc' = "raised"
            /\ http' = IF caller = "chat"
                       THEN [NoResponse EXCEPT !.status = 500] ELSE NoResponse
            /\ UNCHANGED <<state, result, held>>
    /\ UNCHANGED <<caller, user_input, include_analysis, chan, steps, proposed,
                   executed, requests, rich, v_in, v_out>>

\* llm.invoke raises inside call_model
ModelError ==
    /\ pc = "agent"
    /\ StepAllowed(steps)
    /\ Failed("model_error")

\* the graph needs one more super-step than the recursion limit allows
GraphRecursionError ==
    /\ pc \in {"agent", "tools"}
    /\ ~StepAllowed(steps)
    /\ Failed("recursion_limit")

\* the tools node, then the edge back to the agent node
ToolNode ==
    /\ pc = "tools"
    /\ StepAllowed(steps)
    /\ chan' = [chan EXCEPT !.messages = @ \o ToolNodeMessages(@)]
    /\ executed' = Append(executed, chan.messages[Len(chan.messages)].tool_calls)
    /\ steps' = steps + 1
    /\ pc' = "agent"
    /\ UNCHANGED <<caller, user_input, include_analysis, state, result, outcome,
                   proposed, held, http, requests, rich, v_in, v_out>>

\* the graph reached END: run_agent enriches the result and returns it
PostLoop ==
    /\ pc = "end"
    /\ result' = Enrich(InvokeResult(chan), user_input, include_analysis)
    /\ outcome' = "ok"
    /\ pc' = "returned"
    /\ held' = Keep(caller, result')
    /\ http' = Respond(caller, result')
    /\ UNCHANGED <<caller, user_input, include_analysis, state, chan, steps,
                   proposed, executed, requests, rich, v_in, v_out>>

\* the steps of a request in progress
Step ==
    \/ \E reply \in Replies, now \in NowSet : CallModel(reply, now)
    \/ ModelError
    \/ GraphRecursionError
    \/ ToolNode
    \/ PostLoop

Next ==
    \/ \E cl \in {"chat", "mcp", "api"}, text \in Utterances, prior \in BOOLEAN :
          RunAgent(cl, text, prior)
    \/ \E reply \in Replies, now \in NowSet : CallModel(reply, now)
    \/ ModelError
    \/ GraphRecursionError
    \/ ToolNode
    \/ PostLoop

Spec == Init /\ [][Next]_vars

\* a request in progress always takes its next step
FairSpec == Spec /\ WF_vars(Step)

\* ------------------------------------------- the validator on its own

\* an argument that is absent, or present with a value
Absent == <<>>
Present(v) == <<v>>

\* the dict with the arguments that are present
ArgsOf(k1, c1, k2, c2, k3, c3) ==
    [k \in {x \in {k1} : c1 # Absent} \cup {x \in {k2} : c2 # Absent}
           \cup {x \in {k3} : c3 # Absent} |->
        IF k = k1 THEN c1[1] ELSE IF k = k2 THEN c2[1] ELSE c3[1]]

TitleChoices == { Absent, Present(Null), Present(Str(<<>>)), Present(Str(<<"M">>)) }

StartChoices ==
    { Absent, Present(Num(5)), Present(Str(P_tomorrow)),
      Present(Str(<<"a","t"," ","3","p","m">>)),
      Present(Str(<<"a","t"," ","2","5">>)),
      Present(Str(<<"T","o","m","o","r","r","o","w"," ","a","t"," ","3","P","M"," ">>)),
      Present(Str(<<"s","o","o","n">>)) }

\* decimal texts and the numbers they denote, in hundredths
Numerals ==
    { [text |-> <<"0",".","2">>, n |-> 20], [text |-> <<"0",".","2","5">>, n |-> 25],
      [text |-> <<"1">>, n |-> 100], [text |-> <<"1","2">>, n |-> 1200],
      [text |-> <<"1","2",".","5">>, n |-> 1250] }

NumberChoices ==
    { Absent, Present(Null), Present(Str(<<"a","b","c">>)), Present(Str(<<>>)),
      Present(Num(24)), Present(Num(25)), Present(Num(1200)), Present(Num(1201)),
      Present(Num(0)), Present(Num(-100)), Present(Num(100000)) }
    \cup { Present(Str(e.text)) : e \in Numerals }

PriorityChoices ==
    { Absent, Present(Null), Present(Str(<<"u","r","g","e","n","t">>)),
      Present(Str(<<"H","i","g","h">>)) }
    \cup { Present(Str(p)) : p \in Priorities }

ValidatorInputs ==
    { [name |-> T_create_calendar_event,
       args |-> ArgsOf("summary", t, "start_time", st, "duration_hours", d)] :
        t \in TitleChoices, st \in StartChoices, d \in NumberChoices }
    \cup
    { [name |-> T_create_task,
       args |-> ArgsOf("title", t, "priority", pr, "estimated_hours", h)] :
        t \in TitleChoices, pr \in PriorityChoices, h \in NumberChoices }
    \cup { C_list }

\* a call and a clock value are given, nothing is validated yet
InitValidate ==
    /\ InitSession
    /\ v_in \in { [call |-> c, now |-> n, done |-> FALSE] :
                    c \in ValidatorInputs, n \in NowSet }
    /\ v_out = Accepted(NoArgs)

\* validate_tool_call(tool_name, tool_args) on the call given
Validate ==
    /\ ~v_in.done
    /\ v_in' = [v_in EXCEPT !.done = TRUE]
    /\ v_out' = validate_tool_call(v_in.call.name, v_in.call.args, v_in.now)
    /\ UNCHANGED session

SpecValidate == InitValidate /\ [][Validate]_vars

\* --------------------------------------------- the resolver on its own

\* the text of "at H[:MM][am|pm]"; minute -1 is no minute part; the spaced
\* style has a capital, a blank before the period and blanks around it all
AtText(h, mi, pd, style) ==
    (IF style = "spaced" THEN <<" ","A","t"," ">> ELSE <<"a","t"," ">>)
    \o Digits(h)
    \o (IF mi < 0 THEN <<>> ELSE <<":">> \o TwoDigits(mi))
    \o (IF style = "spaced" /\ pd # "none" THEN <<" ">> ELSE <<>>)
    \o (IF pd = "am" THEN <<"a","m">> ELSE IF pd = "pm" THEN <<"p","m">> ELSE <<>>)
    \o (IF style = "spaced" THEN <<" ">> ELSE <<>>)

AtPhrases ==
    { [text |-> AtText(h, mi, pd, style), hour |-> h, minute |-> mi, period |-> pd] :
        h \in {0, 3, 9, 12, 15, 16, 23, 25}, mi \in {-1, 0, 30, 75},
        pd \in {"none", "am", "pm"},
        style \in {"plain", "spaced"} }

\* the at-phrases, the phrases of the table and phrases of the other kinds
ResolverPhrases ==
    { e.text : e \in AtPhrases }
    \cup { e.k : e \in time_mapping([d |-> 0, m |-> 0, s |-> 0]) }
    \cup { <<>>, <<"s","o","o","n">>, <<"N","o","w"," ">>,
           <<"i","n"," ","3"," ","h","o","u","r","s">>,
           <<"i","n"," ","9","0","m","i","n","u","t","e","s">>,
           <<"i","n"," ","5"," ","d","a","y","s">>,
           <<"T","o","m","o","r","r","o","w"," ","a","t"," ","3","P","M"," ">> }

\* clock values: midnight, 9:00:00, 15:00:00, 16:00:30 and 23:59:59 of day 0
ResolverNows ==
    { [d |-> 0, m |-> 0, s |-> 0], [d |-> 0, m |-> 540, s |-> 0],
      [d |-> 0, m |-> 900, s |-> 0], [d |-> 0, m |-> 960, s |-> 30],
      [d |-> 0, m |-> 1439, s |-> 59] }

\* a phrase and a clock value are given, nothing is resolved yet
InitResolve ==
    /\ InitSession
    /\ v_in \in { [phrase |-> ph, now |-> n, done |-> FALSE] :
                    ph \in ResolverPhrases, n \in ResolverNows }
    /\ v_out = Returned(<<>>)

\* parse_natural_time(time_str) on the phrase given
Resolve ==
    /\ ~v_in.done
    /\ v_in' = [v_in EXCEPT !.done = TRUE]
    /\ v_out' = parse_natural_time(Str(v_in.phrase), v_in.now)
    /\ UNCHANGED session

SpecResolve == InitResolve /\ [][Resolve]_vars

\* ------------------------------------------- the classifier on its own

\* pieces of a response text, each holding one keyword of the kind named or
\* none; no two pieces side by side make up another keyword
Fragments ==
    { [text |-> <<"E","r","r","o","r">>, kind |-> "error"],
      [text |-> <<"c","o","u","l","d"," ","n","o","t">>, kind |-> "error"],
      [text |-> <<"CROSS">>, kind |-> "error"],
      [text |-> <<"p","e","n","d","i","n","g">>, kind |-> "warning"],
      [text |-> <<"O","v","e","r","d","u","e">>, kind |-> "warning"],
      [text |-> <<"WARN">>, kind |-> "warning"],
      [text |-> <<"c","r","e","a","t","e","d">>, kind |-> "success"],
      [text |-> <<"D","o","n","e">>, kind |-> "success"],
      [text |-> <<"CHECK">>, kind |-> "success"],
      [text |-> <<"h","e","l","l","o">>, kind |-> "none"],
      [text |-> <<"o","k">>, kind |-> "none"] }

\* the response text made of the pieces, a blank between two
RECURSIVE JoinParts(_)
JoinParts(parts) ==
    IF parts = <<>> THEN <<>>
    ELSE IF Len(parts) = 1 THEN parts[1].text
    ELSE parts[1].text \o <<" ">> \o JoinParts(Tail(parts))

\* the action records of a run, by status
RecordLists ==
    LET rec(st) == [tool |-> "list_tasks", args |-> NoArgs, status |-> st,
                    error |-> IF st = "invalid" THEN "rejected" ELSE ""]
    IN  { <<>>, <<rec("valid")>>, <<rec("invalid")>>, <<rec("valid"), rec("invalid")>> }

\* a response text and action records are given, nothing is classified yet
InitClassify ==
    /\ InitSession
    /\ v_in \in { [parts |-> ps, records |-> rs, done |-> FALSE] :
                    ps \in UNION { [1..n -> Fragments] : n \in 0..MaxParts },
                    rs \in RecordLists }
    /\ v_out = "none"

\* classify_output(response, tool_calls) on the inputs given
Classify ==
    /\ ~v_in.done
    /\ v_in' = [v_in EXCEPT !.done = TRUE]
    /\ v_out' = classify_output(JoinParts(v_in.parts), v_in.records)
    /\ UNCHANGED session

SpecClassify == InitClassify /\ [][Classify]_vars

\* ------------------------------------------------------ workload sources

\* sum(seq)
RECURSIVE SeqSum(_)
SeqSum(seq) == IF seq = <<>> THEN 0 ELSE Head(seq) + SeqSum(Tail(seq))

\* the length of the longest run of [\d.] of s that starts at i
RECURSIVE DotDigitRun(_, _)
DotDigitRun(s, i) ==
    IF i <= Len(s) /\ (IsDigit(s[i]) \/ s[i] = ".")
    THEN 1 + DotDigitRun(s, i + 1) ELSE 0

\* str.count(p): the occurrences of p in s that do not overlap
RECURSIVE CountOf(_, _)
CountOf(s, p) ==
    IF Len(s) < Len(p) THEN 0
    ELSE IF HasAt(s, 1, p) THEN 1 + CountOf(SubSeq(s, Len(p) + 1, Len(s)), p)
    ELSE CountOf(Tail(s), p)

\* the hours one line of a source text adds, in hundredths, or -1 when it
\* adds nothing.  Tasks: 'Est:' in line, re.search(r'Est:\s*([\d.]+)h'),
\* float() of the group, a ValueError skipped.  Events: '(' and 'h)' in
\* line, re.search(r'\((\d+\.?\d*)h').
LineHours(line, kind) ==
    LET from(i) == IF kind = "task" THEN i + 4 + SpaceRun(line, i + 4) ELSE i + 1
        run(j) == IF kind = "task" THEN DotDigitRun(line, j)
                  ELSE IF DigitRun(line, j) = 0 THEN 0
                  ELSE IF HasAt(line, j + DigitRun(line, j), <<".">>)
                  THEN DigitRun(line, j) + 1 + DigitRun(line, j + DigitRun(line, j) + 1)
                  ELSE DigitRun(line, j)
        starts == { i \in 1..Len(line) :
                      /\ HasAt(line, i, IF kind = "task" THEN <<"E","s","t",":">> ELSE <<"(">>)
                      /\ run(from(i)) >= 1
                      /\ HasAt(line, from(i) + run(from(i)), <<"h">>) }
        first == CHOOSE i \in starts : \A k \in starts : i <= k
        value == ParseFloat(SubSeq(line, from(first), from(first) + run(from(first)) - 1))
    IN  IF kind = "event" /\ ~Contains(line, <<"h",")">>) THEN -1
        ELSE IF starts = {} THEN -1
        ELSE IF value.raised THEN -1
        ELSE value.n

\* the loop over the lines of a source text: the hours and the count
SourceHours(lines, kind) ==
    [hours |-> SeqSum([i \in 1..Len(lines) |->
                          IF LineHours(lines[i], kind) < 0 THEN 0
                          ELSE LineHours(lines[i], kind)]),
     count |-> Cardinality({ i \in 1..Len(lines) : LineHours(lines[i], kind) >= 0 })]

\* round(x, 1) of a value in hundredths.  A value ending in 5 here is a
\* multiple of a quarter, exact in binary: the tie goes to the even tenth.
Round1(x) ==
    IF x % 10 < 5 THEN x - (x % 10)
    ELSE IF x % 10 > 5 THEN x - (x % 10) + 10
    ELSE IF (x \div 10) % 2 = 0 THEN x - 5 ELSE x + 5

\* a workload that reads every result the searches list
get_github_workload_unlimited(gh) ==
    IF gh.fails # "no"
    THEN [total_issues |-> 0, total_prs |-> 0, estimated_hours |-> 0, error |-> gh.fails]
    ELSE LET Hours(labels) ==
                 IF labels \cap {"critical", "urgent", "p0"} # {} THEN 400
                 ELSE IF labels \cap {"high", "important", "p1"} # {} THEN 300
                 ELSE IF labels \cap {"low", "p3"} # {} THEN 100
                 ELSE 200
         IN  [total_issues |-> Len(gh.issues),
              total_prs |-> gh.prs,
              estimated_hours |->
                  Round1(SeqSum([i \in 1..Len(gh.issues) |-> Hours(gh.issues[i])])
                         + 50 * gh.prs),
              error |-> "none"]

\* get_github_workload(): gh is what the issue tracker answers, the label
\* sets (lower-cased) of the open issues in the order the search lists them
\* and the number of open pull requests, or why it fails.  Only the first
\* SearchLimit results of each search are read.
get_github_workload(gh) ==
    IF gh.fails # "no"
    THEN [total_issues |-> 0, total_prs |-> 0, estimated_hours |-> 0, error |-> gh.fails]
    ELSE LET Hours(labels) ==
                 IF labels \cap {"critical", "urgent", "p0"} # {} THEN 400
                 ELSE IF labels \cap {"high", "important", "p1"} # {} THEN 300
                 ELSE IF labels \cap {"low", "p3"} # {} THEN 100
                 ELSE 200
             Limited(n) == IF n < SearchLimit THEN n ELSE SearchLimit
         IN  [total_issues |-> Limited(Len(gh.issues)),
              total_prs |-> Limited(gh.prs),
              estimated_hours |->
                  Round1(SeqSum([i \in 1..Limited(Len(gh.issues)) |-> Hours(gh.issues[i])])
                         + 50 * Limited(gh.prs)),
              error |-> "none"]

\* tiers whose upper bounds are inclusive
effort_level_inclusive(total_hours) ==
    IF total_hours <= 400 THEN "low"
    ELSE IF total_hours <= 800 THEN "medium"
    ELSE IF total_hours <= 1200 THEN "high"
    ELSE "overloaded"

\* effort_level of calculate_schedule_effort, total_hours in hundredths
effort_level(total_hours) ==
    IF total_hours < 400 THEN "low"
    ELSE IF total_hours < 800 THEN "medium"
    ELSE IF total_hours < 1200 THEN "high"
    ELSE "overloaded"

\* calculate_schedule_effort(state, include_github): a source that raises
\* ends the try block, and the except branch answers
calculate_schedule_effort(tasks, calendar, gh, include_github) ==
    IF tasks.raised \/ calendar.raised
    THEN [effort_level |-> "unknown", total_hours |-> 0, scheduled_hours |-> 0,
          pending_hours |-> 0, github_hours |-> 0, task_count |-> 0,
          event_count |-> 0, github_issues |-> 0, github_prs |-> 0]
    ELSE LET pending == SourceHours(tasks.lines, "task")
             scheduled == SourceHours(calendar.lines, "event")
             github == IF include_github THEN get_github_workload(gh)
                       ELSE [total_issues |-> 0, total_prs |-> 0,
                             estimated_hours |-> 0, error |-> "none"]
             total_hours == pending.hours + scheduled.hours + github.estimated_hours
         IN  [effort_level |-> effort_level(total_hours),
              total_hours |-> Round1(total_hours),
              scheduled_hours |-> Round1(scheduled.hours),
              pending_hours |-> Round1(pending.hours),
              github_hours |-> Round1(github.estimated_hours),
              task_count |-> pending.count, event_count |-> scheduled.count,
              github_issues |-> github.total_issues, github_prs |-> github.total_prs]

\* a summary whose tool calls are not in a try of their own
get_daily_work_summary_bare(tasks, calendar, gh) ==
    [raised |-> tasks.raised \/ calendar.raised,
     tasks_pending |-> 0, events_today |-> 0,
     github_issues |-> get_github_workload(gh).total_issues,
     github_prs |-> get_github_workload(gh).total_prs]

\* get_daily_work_summary(): each of the two tool calls in a try of its own
get_daily_work_summary(tasks, calendar, gh) ==
    [raised |-> FALSE,
     tasks_pending |->
        IF tasks.raised THEN 0
        ELSE SeqSum([i \in 1..Len(tasks.lines) |-> CountOf(tasks.lines[i], <<"*","*">>)]) \div 2,
     events_today |->
        IF calendar.raised THEN 0
        ELSE SeqSum([i \in 1..Len(calendar.lines) |-> CountOf(calendar.lines[i], <<"CLOCK">>)]),
     github_issues |-> get_github_workload(gh).total_issues,
     github_prs |-> get_github_workload(gh).total_prs]

\* --------------------------------------------- the aggregator on its own

\* the texts list_tasks and get_calendar_events may answer, or that they
\* raise; with each the hours, the lines counted and the markers it holds
TaskSources ==
    { [raised |-> TRUE, lines |-> <<>>, hours |-> 0, count |-> 0, marks |-> 0],
      [raised |-> FALSE, lines |-> <<<<"CROSS"," ","E","r","r","o","r"," ","l","i","s","t","i","n","g"," ","t","a","s","k","s",":"," ","t","i","m","e","o","u","t">>>>, hours |-> 0, count |-> 0, marks |-> 0],
      [raised |-> FALSE, lines |-> <<<<"MEMO"," ","N","o"," ","t","a","s","k","s"," ","f","o","u","n","d",".">>>>, hours |-> 0, count |-> 0, marks |-> 0],
      [raised |-> FALSE, lines |-> <<<<"HOURGLASS"," ","F","i","x"," ","l","o","g","i","n">>, <<" "," "," ","P","r","i","o","r","i","t","y",":"," ","h","i","g","h">>, <<" "," "," ","E","s","t","i","m","a","t","e","d",":"," ","2",".","0","h">>>>, hours |-> 0, count |-> 0, marks |-> 0],
      [raised |-> FALSE, lines |-> <<<<"HOURGLASS"," ","*","*","R","e","v","i","e","w","*","*"," ","E","s","t",":"," ","0",".","2","5","h">>>>, hours |-> 25, count |-> 1, marks |-> 1],
      [raised |-> FALSE, lines |-> <<<<"HOURGLASS"," ","E","s","t",":"," ","3",".","9","9","h">>>>, hours |-> 399, count |-> 1, marks |-> 0],
      [raised |-> FALSE, lines |-> <<<<"HOURGLASS"," ","*","*","D","e","p","l","o","y","*","*"," ","E","s","t",":","4","h">>, <<"HOURGLASS"," ","*","*","x","*","*"," ","*","*","y","*","*"," ","E","s","t",":"," ","1",".","2",".","3","h">>>>, hours |-> 400, count |-> 1, marks |-> 3],
      [raised |-> FALSE, lines |-> <<<<"HOURGLASS"," ","E","s","t",":"," ","3",".","9","9","h">>, <<"HOURGLASS"," ","E","s","t",":"," ","4","h">>>>, hours |-> 799, count |-> 2, marks |-> 0],
      [raised |-> FALSE, lines |-> <<<<"HOURGLASS"," ","E","s","t",":"," ","7",".","5","h">>, <<"HOURGLASS"," ","E","s","t",":"," ","4","h"," ","x"," ","E","s","t",":"," ","9","h">>>>, hours |-> 1150, count |-> 2, marks |-> 0],
      [raised |-> FALSE, lines |-> <<<<"HOURGLASS"," ","E","s","t",":"," ","1","2","h">>>>, hours |-> 1200, count |-> 1, marks |-> 0] }

CalendarSources ==
    { [raised |-> TRUE, lines |-> <<>>, hours |-> 0, count |-> 0, marks |-> 0],
      [raised |-> FALSE, lines |-> <<<<"CROSS"," ","E","r","r","o","r"," ","f","e","t","c","h","i","n","g"," ","c","a","l","e","n","d","a","r"," ","e","v","e","n","t","s",":"," ","t","i","m","e","o","u","t">>>>, hours |-> 0, count |-> 0, marks |-> 0],
      [raised |-> FALSE, lines |-> <<<<"CAL"," ","N","o"," ","e","v","e","n","t","s"," ","s","c","h","e","d","u","l","e","d"," ","f","o","r"," ","t","o","d","a","y">>>>, hours |-> 0, count |-> 0, marks |-> 0],
      [raised |-> FALSE, lines |-> <<<<"CLOCK"," ","0","9",":","0","0"," ","A","M"," ","-"," ","0","9",":","3","0"," ","A","M">>, <<" "," "," ","S","t","a","n","d","u","p"," ","(","0",".","5","h",")">>>>, hours |-> 50, count |-> 1, marks |-> 1],
      [raised |-> FALSE, lines |-> <<<<"CLOCK"," ","0","9",":","0","0"," ","A","M"," ","-"," ","0","1",":","0","0"," ","P","M">>, <<" "," "," ","W","o","r","k","s","h","o","p"," ","(","p","a","r","t"," ","1",")"," ","(","4",".","0","h",")">>>>, hours |-> 400, count |-> 1, marks |-> 1],
      [raised |-> FALSE, lines |-> <<<<"CLOCK"," ","0","9",":","0","0"," ","A","M"," ","-"," ","0","5",":","0","0"," ","P","M">>, <<" "," "," ","O","n","s","i","t","e"," ","(","8",".","0","h",")">>, <<"CLOCK"," ","0","5",":","0","0"," ","P","M"," ","-"," ","0","5",":","0","6"," ","P","M">>, <<" "," "," ","S","y","n","c"," ","(","h",")">>>>, hours |-> 800, count |-> 1, marks |-> 2] }

\* what the issue tracker answers: a failure, or the open issues (their
\* label sets, in search order) and the open pull requests; critical, high,
\* medium and low say how many of the issues listed are of that priority,
\* and read how many of each are among the first SearchLimit results.
\* Three answers list more than SearchLimit results.
GithubSources ==
    { [fails |-> f, issues |-> <<>>, critical |-> 0, high |-> 0, medium |-> 0,
       low |-> 0, prs |-> 0,
       read |-> [critical |-> 0, high |-> 0, medium |-> 0, low |-> 0, prs |-> 0]] :
        f \in {"no_token", "exception"} }
    \cup { [fails |-> "no",
            issues |-> [i \in 1..(c + h + m + l) |->
                           IF i <= c THEN {"p0"}
                           ELSE IF i <= c + h THEN {"important"}
                           ELSE IF i <= c + h + m THEN {"bug"} ELSE {"p3"}],
            critical |-> c, high |-> h, medium |-> m, low |-> l, prs |-> p,
            read |-> [critical |-> c, high |-> h, medium |-> m, low |-> l, prs |-> p]] :
             c \in 0..MaxIssues, h \in 0..MaxIssues, m \in 0..MaxIssues,
             l \in 0..MaxIssues, p \in 0..MaxPulls }
    \cup { [fails |-> "no", issues |-> [i \in 1..(SearchLimit + 1) |-> {"critical"}],
            critical |-> SearchLimit + 1, high |-> 0, medium |-> 0, low |-> 0, prs |-> 0,
            read |-> [critical |-> SearchLimit, high |-> 0, medium |-> 0, low |-> 0,
                      prs |-> 0]],
           [fails |-> "no",
            issues |-> [i \in 1..(SearchLimit + 1) |->
                           IF i <= SearchLimit THEN {"low"} ELSE {"low", "urgent"}],
            critical |-> 1, high |-> 0, medium |-> 0, low |-> SearchLimit, prs |-> 0,
            read |-> [critical |-> 0, high |-> 0, medium |-> 0, low |-> SearchLimit,
                      prs |-> 0]],
           [fails |-> "no", issues |-> <<>>, critical |-> 0, high |-> 0, medium |-> 0,
            low |-> 0, prs |-> SearchLimit + 1,
            read |-> [critical |-> 0, high |-> 0, medium |-> 0, low |-> 0,
                      prs |-> SearchLimit]] }

\* the three sources are given, nothing is computed yet
InitAggregate ==
    /\ InitSession
    /\ v_in \in { [tasks |-> t, calendar |-> c, gh |-> g, github |-> ig, done |-> FALSE] :
                    t \in TaskSources, c \in CalendarSources, g \in GithubSources,
                    ig \in BOOLEAN }
    /\ v_out = [op |-> "none"]

\* get_daily_work_summary() on the sources given
Summarize ==
    /\ ~v_in.done
    /\ v_in.github
    /\ v_in' = [v_in EXCEPT !.done = TRUE]
    /\ v_out' = [op |-> "summary",
                 summary |-> get_daily_work_summary(v_in.tasks, v_in.calendar, v_in.gh)]
    /\ UNCHANGED session

\* calculate_schedule_effort(state, include_github) on the sources given
Aggregate ==
    /\ ~v_in.done
    /\ v_in' = [v_in EXCEPT !.done = TRUE]
    /\ v_out' = [op |-> "effort",
                 effort |-> calculate_schedule_effort(v_in.tasks, v_in.calendar,
                                                      v_in.gh, v_in.github)]
    /\ UNCHANGED session

SpecAggregate == InitAggregate /\ [][Summarize \/ Aggregate]_vars

\* ----------------------------------------- created tasks in the workload

\* the task list holds nothing yet; estimates remembers, per task created,
\* the estimate it was created with
InitTasks ==
    /\ InitSession
    /\ v_in = [store |-> <<>>, estimates |-> <<>>, done |-> FALSE]
    /\ v_out = [op |-> "none"]

\* create_task(title, priority, estimated_hours, description): the task is
\* stored with the priority emoji before its title and with the notes
\* f"{description}\n\n---\nPriority: {priority}\nEstimated: {estimated_hours}h",
\* kept here as their lines; str() of the float has one decimal for a
\* multiple of a tenth and two otherwise
create_task(title, priority, estimated_hours, description) ==
    /\ ~v_in.done
    /\ Len(v_in.store) < MaxTasks
    /\ v_in' =
         [v_in EXCEPT
            !.store = Append(@,
                [title |-> <<CASE priority = <<"l","o","w">> -> "GREEN"
                               [] priority = <<"m","e","d","i","u","m">> -> "YELLOW"
                               [] priority = <<"h","i","g","h">> -> "ORANGE"
                               [] OTHER -> "RED">> \o <<" ">> \o title,
                 status |-> "needsAction",
                 notes |-> << description, <<>>, <<"-","-","-">>,
                              <<"P","r","i","o","r","i","t","y",":"," ">> \o priority,
                              <<"E","s","t","i","m","a","t","e","d",":"," ">>
                                  \o Digits(estimated_hours \div 100) \o <<".">>
                                  \o (IF estimated_hours % 10 = 0
                                      THEN <<DigitChars[((estimated_hours % 100) \div 10) + 1]>>
                                      ELSE TwoDigits(estimated_hours % 100))
                                  \o <<"h">> >>]),
            !.estimates = Append(@, estimated_hours)]
    /\ UNCHANGED <<v_out, session>>

\* list_tasks("pending") on the tasks stored, as the lines of its answer: a
\* header, then per task its title and the lines of its notes that hold
\* 'Priority:' or 'Estimated:', stripped and indented, with an empty line
\* between tasks
RECURSIVE list_tasks(_)
list_tasks(tasks) ==
    IF tasks = <<>>
    THEN << <<"MEMO"," ","N","o"," ","t","a","s","k","s"," ","f","o","u","n","d",".">> >>
    ELSE << <<"CLIP"," ","T","a","s","k","s"," ","(">> \o Digits(Len(tasks)) \o <<")",":">> >>
         \o (IF Len(tasks) = 1 THEN << <<>> >>
             ELSE Tail(list_tasks(SubSeq(tasks, 1, Len(tasks) - 1))) \o << <<>> >>)
         \o << <<"HOURGLASS"," ">> \o tasks[Len(tasks)].title >>
         \o [i \in 1..Len(SelectSeq(tasks[Len(tasks)].notes,
                  LAMBDA line : \/ Contains(line, <<"P","r","i","o","r","i","t","y",":">>)
                                \/ Contains(line, <<"E","s","t","i","m","a","t","e","d",":">>))) |->
                <<" "," "," ">> \o Strip(SelectSeq(tasks[Len(tasks)].notes,
                  LAMBDA line : \/ Contains(line, <<"P","r","i","o","r","i","t","y",":">>)
                                \/ Contains(line, <<"E","s","t","i","m","a","t","e","d",":">>))[i])]

\* calculate_schedule_effort on the task list, with an empty calendar and
\* without the issue tracker
PendingEffort ==
    /\ ~v_in.done
    /\ v_in' = [v_in EXCEPT !.done = TRUE]
    /\ v_out' =
         [op |-> "effort",
          listing |-> list_tasks(v_in.store),
          effort |-> calculate_schedule_effort(
                         [raised |-> FALSE, lines |-> list_tasks(v_in.store)],
                         [raised |-> FALSE, lines |-> <<>>],
                         [fails |-> "no_token"], FALSE)]
    /\ UNCHANGED session

SpecTasks ==
    InitTasks
    /\ [][ \/ \E title \in {<<"F","i","x"," ","l","o","g","i","n">>},
                priority \in Priorities, estimated_hours \in {25, 200, 1250},
                description \in {<<>>, <<"d","o","c","s">>} :
                  create_task(title, priority, estimated_hours, description)
          \/ PendingEffort ]_vars

\* ------------------------------------------------------------------ claims

LastOf(messages) == messages[Len(messages)]

\* the calls of a proposal that its records mark valid, in proposal order
ValidCalls(p) == SelectSeq(p.calls, LAMBDA tc : p.records[tc.id].status = "valid")

\* C1: in every Deciding step, the batch handed to the tools node is exactly
\* the proposed calls that validate_tool_call accepted: no rejected call is
\* dispatched, also when every call of the batch is rejected, and every
\* accepted call is.
C1_RejectedNeverExecuted ==
    \A r \in 1..Len(executed) : executed[r] = ValidCalls(proposed[r])

\* C2 as claimed: whatever happens in the run, the returned state ends with
\* the model's final answer, a message of the model without proposed calls.
C2_LastIsFinalAnswerAlways ==
    pc = "returned" =>
        /\ LastOf(result.messages).role = "ai"
        /\ LastOf(result.messages).tool_calls = <<>>

\* C2, amended: when the loop ends without an error, the returned state ends
\* with the model's last reply (with the effort report appended when one was
\* computed), that message carries no proposed call and every earlier batch
\* was dispatched; when the loop ends with an error, the returned state ends
\* with the error message instead.
C2_LastIsFinalAnswer ==
    /\ (pc = "returned" /\ outcome = "ok") =>
          /\ LastOf(result.messages).role = "ai"
          /\ LastOf(result.messages).tool_calls = <<>>
          /\ LastOf(proposed).calls = <<>>
          /\ LastOf(result.messages).content \in
                { LastOf(proposed).content, LastOf(proposed).content \o ReportText }
          /\ Len(executed) = Len(proposed) - 1
    /\ (pc = "returned" /\ outcome # "ok") =>
          LastOf(result.messages) = SystemMessage(ErrorText)

C2_Witness ==
    /\ pc = "returned"
    /\ outcome = "ok"
    /\ executed # <<>>
    /\ Len(state.messages) > 1

\* C3: when the first reply of the model proposes no action, the loop is at
\* its end after that one Deciding step: the model was invoked once, one
\* super-step ran and no action was dispatched.
C3_NoActionsOneStep ==
    (Len(proposed) >= 1 /\ proposed[1].calls = <<>>) =>
        /\ pc \in {"end", "returned"}
        /\ Len(proposed) = 1
        /\ steps = 1
        /\ executed = <<>>
        /\ outcome \in {"none", "ok"}

C3_Witness ==
    /\ pc = "returned"
    /\ outcome = "ok"
    /\ Len(proposed) = 1
    /\ proposed[1].calls = <<>>

\* C4: a request never runs more than RecursionLimit super-steps (so at most
\* 13 Deciding steps and 12 Acting steps), a request in progress always has a
\* next step, and a request that hits the limit ends like one whose model
\* call failed: the error message is appended to the caller's state, which
\* is returned.
InProgress ==
    \/ pc = "agent" /\ StepAllowed(steps) /\ Replies # {}
    \/ pc = "tools" /\ StepAllowed(steps)
    \/ pc \in {"agent", "tools"} /\ ~StepAllowed(steps)
    \/ pc = "end"

C4_LoopBounded ==
    /\ steps <= RecursionLimit
    /\ 2 * Len(proposed) <= RecursionLimit + 1
    /\ 2 * Len(executed) <= RecursionLimit
    /\ steps = Len(proposed) + Len(executed)
    /\ pc \in {"agent", "tools", "end"} => InProgress
    /\ outcome = "recursion_limit" =>
          /\ pc = "returned"
          /\ result = state
          /\ LastOf(result.messages) = SystemMessage(ErrorText)

C4_Witness ==
    /\ pc = "returned"
    /\ outcome = "recursion_limit"
    /\ steps = RecursionLimit

\* C5: when the model invocation fails, run_agent returns (it does not raise)
\* the caller's state with the error message, marked by the cross, appended
\* as its last message.
C5_ModelErrorReturned ==
    outcome = "model_error" =>
        /\ pc = "returned"
        /\ result = state
        /\ LastOf(result.messages).role = "system"
        /\ HasAt(LastOf(result.messages).content, 1, ErrorText)
        /\ Contains(LastOf(result.messages).content, <<"CROSS">>)
        /\ Len(result.messages) >= 2
        /\ result.messages[Len(result.messages) - 1] = HumanMessage(user_input)

C5_Witness ==
    /\ pc = "returned"
    /\ outcome = "model_error"
    /\ executed # <<>>

\* C6: when the model invocation fails, the returned state has classification
\* "error", with and without include_analysis.
C6_ErrorClassification ==
    (pc = "returned" /\ outcome = "model_error") => result.classification = "error"

\* C7: at /chat, a model invocation failure is answered as a request failure
\* (HTTP 500), not as a chat response.
C7_ChatFailsRequest ==
    (caller = "chat" /\ outcome = "model_error") => http.status = 500

\* the number a duration argument denotes, and whether it denotes one
IsNumber(v) ==
    \/ v.kind = "num"
    \/ v.kind = "str" /\ \E e \in Numerals : e.text = v.s
NumberOf(v) ==
    IF v.kind = "num" THEN v.n ELSE (CHOOSE e \in Numerals : e.text = v.s).n

NonEmptyText(args, k) ==
    k \in DOMAIN args /\ args[k].kind = "str" /\ args[k].s # <<>>

\* a create-event call whose start time the resolver accepts
EventCase ==
    /\ v_in.done
    /\ v_in.call.name = T_create_calendar_event
    /\ ~parse_natural_time(Get(v_in.call.args, "start_time", Str(<<>>)), v_in.now).raised

\* C8: a create-event call with a numeric duration and a start time the
\* resolver accepts is accepted exactly when its title is non-empty and
\* 0.25 <= duration <= 12, and every rejection carries a reason.
C8_EventDuration ==
    (/\ EventCase
     /\ "duration_hours" \in DOMAIN v_in.call.args
     /\ IsNumber(v_in.call.args["duration_hours"])) =>
        /\ v_out.ok <=>
              /\ NonEmptyText(v_in.call.args, "summary")
              /\ NumberOf(v_in.call.args["duration_hours"]) >= 25
              /\ NumberOf(v_in.call.args["duration_hours"]) <= 1200
        /\ ~v_out.ok => v_out.error # ""

C8_Witness ==
    /\ EventCase
    /\ NonEmptyText(v_in.call.args, "summary")
    /\ "duration_hours" \in DOMAIN v_in.call.args
    /\ v_in.call.args["duration_hours"] = Str(<<"1","2",".","5">>)
    /\ ~v_out.ok

\* C9: a create-event call without a duration argument is rejected.
C9_MissingDurationRejected ==
    (/\ v_in.done
     /\ v_in.call.name = T_create_calendar_event
     /\ "duration_hours" \notin DOMAIN v_in.call.args) => ~v_out.ok

\* a proposed create-task call with a non-empty title and no priority
PlainTask(tc) ==
    /\ tc.name = T_create_task
    /\ NonEmptyText(tc.args, "title")
    /\ "priority" \notin DOMAIN tc.args

Medium == Str(<<"m","e","d","i","u","m">>)

\* C10: a create-task call with a non-empty title and no priority is valid,
\* and both the arguments of its record and the arguments it is dispatched
\* with carry priority "medium".
C10_PriorityDefaulted ==
    \A r \in 1..Len(proposed) : \A i \in 1..Len(proposed[r].calls) :
        PlainTask(proposed[r].calls[i]) =>
            /\ proposed[r].records[i].status = "valid"
            /\ Get(proposed[r].records[i].args, "priority", Null) = Medium
            /\ r <= Len(executed) =>
                  \E j \in 1..Len(executed[r]) :
                      /\ executed[r][j].id = i
                      /\ Get(executed[r][j].args, "priority", Null) = Medium

\* C11: a create-task call is accepted exactly when its title is non-empty,
\* its priority is absent or one of low, medium, high, critical, and its
\* estimated hours are absent or denote a number, of any size; every
\* rejection carries a reason.
C11_TaskValidation ==
    (v_in.done /\ v_in.call.name = T_create_task) =>
        /\ v_out.ok <=>
              /\ NonEmptyText(v_in.call.args, "title")
              /\ \/ "priority" \notin DOMAIN v_in.call.args
                 \/ /\ v_in.call.args["priority"].kind = "str"
                    /\ v_in.call.args["priority"].s \in
                          { <<"l","o","w">>, <<"m","e","d","i","u","m">>,
                            <<"h","i","g","h">>, <<"c","r","i","t","i","c","a","l">> }
              /\ \/ "estimated_hours" \notin DOMAIN v_in.call.args
                 \/ IsNumber(v_in.call.args["estimated_hours"])
        /\ ~v_out.ok => v_out.error # ""

C11_Witness ==
    /\ v_in.done
    /\ v_in.call.name = T_create_task
    /\ "priority" \in DOMAIN v_in.call.args
    /\ "estimated_hours" \in DOMAIN v_in.call.args
    /\ v_in.call.args["estimated_hours"] = Num(100000)
    /\ v_out.ok

\* C12: the resolver returns a result for every phrase and every clock
\* value: it never raises.
C12_ResolverTotal == v_in.done => ~v_out.raised

\* the hour of an at-phrase after the 12-hour conversion
ClockHour(e) ==
    IF e.period = "pm" /\ e.hour < 12 THEN e.hour + 12
    ELSE IF e.period = "am" /\ e.hour = 12 THEN 0
    ELSE e.hour

ClockMinute(e) == IF e.minute < 0 THEN 0 ELSE e.minute

\* the clock time of an at-phrase has passed at now
Passed(e, now) ==
    \/ 60 * ClockHour(e) + ClockMinute(e) < now.m
    \/ 60 * ClockHour(e) + ClockMinute(e) = now.m /\ now.s > 0

\* the timestamp C13 expects for an at-phrase
ClockTarget(e, now) ==
    [d |-> IF Passed(e, now) THEN now.d + 1 ELSE now.d,
     m |-> 60 * ClockHour(e) + ClockMinute(e), s |-> 0]

\* C13: for a phrase "at H[:MM][am|pm]" that names a clock time (hour at
\* most 23 after the 12-hour conversion, minute at most 59), the resolver
\* returns that clock time on today's date when it has not passed at now and
\* on tomorrow's date when it has; the result is never earlier than now.
C13_AtClockTime ==
    v_in.done =>
        \A e \in AtPhrases :
            (e.text = v_in.phrase /\ ClockHour(e) <= 23 /\ ClockMinute(e) <= 59) =>
                /\ v_out = Returned(Iso(ClockTarget(e, v_in.now)))
                /\ ~Before(ClockTarget(e, v_in.now), v_in.now)

C13_Witness ==
    /\ v_in.done
    /\ v_in.phrase = AtText(3, -1, "pm", "plain")
    /\ v_in.now = [d |-> 0, m |-> 960, s |-> 30]
    /\ v_out = Returned(<<"D","1","T","1","5",":","0","0",":","0","0">>)

\* the pieces of the text classified that hold a keyword of a kind
PartsOf(kind) ==
    { v_in.parts[i].text : i \in { k \in 1..Len(v_in.parts) : v_in.parts[k].kind = kind } }

HasRecord(status) == \E i \in 1..Len(v_in.records) : v_in.records[i].status = status

\* C14: classify_output is a cascade in which the first rule that applies
\* decides: an error keyword gives error; else an invalid record gives
\* error; else two or more distinct warning keywords give warning (one
\* never does); else a success keyword gives success; else a valid record
\* gives success; else info.
C14_ClassifierCascade ==
    v_in.done =>
        v_out = IF PartsOf("error") # {} THEN "error"
                ELSE IF HasRecord("invalid") THEN "error"
                ELSE IF Cardinality(PartsOf("warning")) >= 2 THEN "warning"
                ELSE IF PartsOf("success") # {} THEN "success"
                ELSE IF HasRecord("valid") THEN "success"
                ELSE "info"

C14_Witness ==
    /\ v_in.done
    /\ Cardinality(PartsOf("warning")) = 1
    /\ Len(v_in.parts) = 3
    /\ PartsOf("success") = {}
    /\ PartsOf("error") = {}
    /\ v_in.records # <<>>
    /\ ~HasRecord("invalid")
    /\ v_out = "success"

\* the utterance of the request holds a planning-intent phrase, in any case
PlanningUtterance == user_input = U_plan

Tags == {"success", "info", "warning", "error"}

\* C15 as claimed: every request whose utterance holds a planning-intent
\* phrase returns a state with a daily summary and a classification tag.
C15_PlanningAlwaysEnriched ==
    (pc = "returned" /\ PlanningUtterance) =>
        /\ result.daily_summary
        /\ result.classification \in Tags

\* C15, amended: a request whose utterance holds a planning-intent phrase and
\* whose loop ends without an error returns a state with a daily summary and
\* a classification tag, with and without include_analysis; when the loop
\* ends with an error the returned state is the caller's state with the
\* error message, and nothing is computed for it.
C15_PlanningEnriched ==
    (pc = "returned" /\ PlanningUtterance) =>
        /\ outcome = "ok" => (result.daily_summary /\ result.classification \in Tags)
        /\ outcome # "ok" =>
              /\ result.daily_summary = state.daily_summary
              /\ result.effort_analysis = state.effort_analysis
              /\ Len(held) = 1 => result = held[1]

C15_Witness ==
    /\ pc = "returned"
    /\ PlanningUtterance
    /\ outcome = "ok"
    /\ ~include_analysis
    /\ result.daily_summary
    /\ executed # <<>>

\* a source that failed: it raised, or it answered its error text
Failing(source) ==
    \/ source.raised
    \/ source.lines # <<>> /\ HasAt(source.lines[1], 1, <<"CROSS">>)

\* the hours and the issues the results read of the tracker's answer stand for
TrackerHours(gh) ==
    IF gh.fails # "no" THEN 0
    ELSE 400 * gh.read.critical + 300 * gh.read.high + 200 * gh.read.medium
         + 100 * gh.read.low + 50 * gh.read.prs

TrackerIssues(gh) ==
    IF gh.fails # "no" THEN 0
    ELSE gh.read.critical + gh.read.high + gh.read.medium + gh.read.low

Summarized == v_in.done /\ v_out.op = "summary"
Aggregated == v_in.done /\ v_out.op = "effort"

\* C16: get_daily_work_summary always returns, and each count it reports is
\* decided by its own source alone: zero when that source failed, and the
\* markers of that source's answer otherwise, whatever the other two did.
C16_SummaryIsolation ==
    Summarized =>
        /\ ~v_out.summary.raised
        /\ Failing(v_in.tasks) => v_out.summary.tasks_pending = 0
        /\ Failing(v_in.calendar) => v_out.summary.events_today = 0
        /\ v_in.gh.fails # "no" =>
              (v_out.summary.github_issues = 0 /\ v_out.summary.github_prs = 0)
        /\ v_out.summary.tasks_pending = v_in.tasks.marks
        /\ v_out.summary.events_today = v_in.calendar.marks
        /\ v_out.summary.github_issues = TrackerIssues(v_in.gh)
        /\ v_out.summary.github_prs = v_in.gh.read.prs

C16_Witness ==
    /\ Summarized
    /\ v_in.tasks.raised
    /\ v_in.gh.fails = "exception"
    /\ v_out.summary.events_today = 2
    /\ v_out.summary.tasks_pending = 0

\* C17: in the snapshot of calculate_schedule_effort, the hours of a source
\* that failed are 0 and the hours of each other source are what that
\* source's answer holds, whichever source failed.
C17_EffortIsolation ==
    Aggregated =>
        /\ Failing(v_in.calendar) => v_out.effort.scheduled_hours = 0
        /\ Failing(v_in.tasks) => v_out.effort.pending_hours = 0
        /\ v_out.effort.pending_hours = Round1(v_in.tasks.hours)
        /\ v_out.effort.scheduled_hours = Round1(v_in.calendar.hours)
        /\ v_in.github => v_out.effort.github_hours = TrackerHours(v_in.gh)

\* C18: the total_hours a snapshot reports is the sum of the scheduled,
\* pending and github hours the same snapshot reports.
C18_TotalIsSum ==
    Aggregated =>
        v_out.effort.total_hours =
            v_out.effort.scheduled_hours + v_out.effort.pending_hours
            + v_out.effort.github_hours

\* the total hours the three answers hold
TotalOf(inp) ==
    inp.tasks.hours + inp.calendar.hours + (IF inp.github THEN TrackerHours(inp.gh) ELSE 0)

\* C19: when no source raises, the tier is low below 4 hours in total,
\* medium from 4 and below 8, high from 8 and below 12, overloaded from 12.
C19_TierBoundaries ==
    (Aggregated /\ ~v_in.tasks.raised /\ ~v_in.calendar.raised) =>
        /\ TotalOf(v_in) < 400 <=> v_out.effort.effort_level = "low"
        /\ (400 <= TotalOf(v_in) /\ TotalOf(v_in) < 800)
              <=> v_out.effort.effort_level = "medium"
        /\ (800 <= TotalOf(v_in) /\ TotalOf(v_in) < 1200)
              <=> v_out.effort.effort_level = "high"
        /\ TotalOf(v_in) >= 1200 <=> v_out.effort.effort_level = "overloaded"

C19_Witness ==
    /\ Aggregated
    /\ ~v_in.tasks.raised
    /\ ~v_in.calendar.raised
    /\ TotalOf(v_in) = 1199
    /\ v_out.effort.effort_level = "high"

\* C20: the tier of every snapshot is low, medium, high or overloaded, also
\* when sources fail.
C20_TierInSet ==
    Aggregated => v_out.effort.effort_level \in {"low", "medium", "high", "overloaded"}

\* the observations appended since the last reply: the trailing tool messages
Observations(messages) ==
    { j \in 1..Len(messages) : \A k \in j..Len(messages) : messages[k].role = "tool" }

\* C21: when the next Deciding step is about to start, every action the
\* validator rejected in the last reply has an observation message, appended
\* after that reply, that carries the rejection reason for that action.
C21_RejectionObserved ==
    (pc = "agent" /\ proposed # <<>>) =>
        \A i \in 1..Len(proposed[Len(proposed)].records) :
            proposed[Len(proposed)].records[i].status = "invalid" =>
                \E j \in Observations(chan.messages) :
                    /\ chan.messages[j].tool_call_id = proposed[Len(proposed)].calls[i].id
                    /\ Contains(chan.messages[j].content,
                                <<proposed[Len(proposed)].records[i].error>>)

\* C22: every create-event call the tools node dispatches carries the start
\* time the resolver produced, the value recorded in the call's ActionRecord,
\* in place of the phrase the model proposed.
C22_ExecutedWithRewrittenStart ==
    \A r \in 1..Len(executed) : \A i \in 1..Len(executed[r]) :
        (/\ executed[r][i].name = T_create_calendar_event
         /\ proposed[r].records[executed[r][i].id].status = "valid")
        => executed[r][i].args["start_time"]
               = proposed[r].records[executed[r][i].id].args["start_time"]

\* role and tool_call_id of each message, in order
Shape(messages) ==
    [j \in 1..Len(messages) |->
        [role |-> messages[j].role, id |-> messages[j].tool_call_id]]

\* what the first r steps of the run must have appended: per reply the
\* model's message, then one observation per dispatched call, in call order
RECURSIVE Exchange(_)
Exchange(r) ==
    IF r = 0 THEN <<>>
    ELSE Exchange(r - 1) \o <<[role |-> "ai", id |-> 0]>>
         \o (IF r <= Len(executed)
             THEN [i \in 1..Len(executed[r]) |-> [role |-> "tool", id |-> executed[r][i].id]]
             ELSE <<>>)

\* C23: during a run the messages appended to the conversation are, reply by
\* reply, the model's message followed by exactly one observation per
\* dispatched action, in the order the actions had in the proposal; a
\* Deciding step starts only when the previous reply's observations are all
\* appended.
C23_ObservationsInOrder ==
    pc \in {"agent", "tools", "end"} =>
        /\ SubSeq(Shape(chan.messages), Len(state.messages) + 1, Len(chan.messages))
               = Exchange(Len(proposed))
        /\ \A r \in 1..Len(executed) : \A i, j \in 1..Len(executed[r]) :
               i < j => executed[r][i].id < executed[r][j].id
        /\ pc = "agent" => Len(executed) = Len(proposed)

\* a batch of two actions was dispatched and the next Deciding step is due
C23_Witness ==
    /\ pc = "agent"
    /\ executed # <<>>
    /\ Len(executed[Len(executed)]) = 2
    /\ LastOf(chan.messages).role = "tool"

\* the ActionRecord history as the session holds it: the channel while the
\* loop runs, the returned state's history once run_agent has returned
History == IF pc = "returned" THEN result.tool_calls ELSE chan.tool_calls

IsPrefix(a, b) == Len(a) <= Len(b) /\ SubSeq(b, 1, Len(a)) = a

\* a request that starts a new conversation: run_agent is given no state
StartsAfresh == pc \notin {"agent", "tools", "end"} /\ Len(state'.messages) = 1

\* the records a Deciding step appended fit the reply: one per proposed
\* action, in proposal order, valid or invalid, invalid ones with a reason
AppendedFit(recs, calls) ==
    /\ Len(recs) = Len(calls)
    /\ \A i \in 1..Len(recs) :
          /\ recs[i].tool = calls[i].name
          /\ recs[i].status \in {"valid", "invalid"}
          /\ recs[i].status = "invalid" => recs[i].error # ""

\* C24: the ActionRecord history only grows: every step of a session keeps
\* the records already in the history, in place and unaltered, and a Deciding
\* step appends exactly one fitting record per proposed action.
C24_HistoryAppendOnly ==
    [][ \/ StartsAfresh
        \/ /\ IsPrefix(History, History')
           /\ (pc = "agent" /\ pc' \in {"tools", "end"}) =>
                 AppendedFit(SubSeq(History', Len(History) + 1, Len(History')),
                             proposed'[Len(proposed')].calls) ]_vars

\* the utterance holds an effort-inquiry phrase
EffortUtterance == user_input = U_busy

\* C25: on a successful run a WorkloadSnapshot is computed exactly when the
\* enrichment is active (include_analysis or a planning-intent utterance) and
\* the utterance holds an effort-inquiry or a planning-intent phrase; the
\* final message is the model's last reply with the effort report appended
\* exactly when the snapshot was computed, and the reply unchanged otherwise.
C25_ReportIffSnapshot ==
    (pc = "returned" /\ outcome = "ok") =>
        /\ (result.effort_analysis = "computed")
               <=> /\ include_analysis \/ PlanningUtterance
                   /\ EffortUtterance \/ PlanningUtterance
        /\ LastOf(result.messages).content =
               IF result.effort_analysis = "computed"
               THEN proposed[Len(proposed)].content \o ReportText
               ELSE proposed[Len(proposed)].content

\* an effort inquiry at /chat was answered with the report appended
C25_Witness ==
    /\ pc = "returned"
    /\ outcome = "ok"
    /\ include_analysis
    /\ EffortUtterance
    /\ result.effort_analysis = "computed"
    /\ LastOf(result.messages).content = proposed[Len(proposed)].content \o ReportText

\* the snapshot was computed with the tracker included and answering
Tracked ==
    /\ Aggregated
    /\ v_in.github
    /\ v_in.gh.fails = "no"
    /\ ~v_in.tasks.raised
    /\ ~v_in.calendar.raised

\* C26 as claimed: the issue-tracker hours are 4 per critical, 3 per high,
\* 2 per medium and 1 per low open issue plus 0.5 per open pull request, for
\* every list of issues and pull requests the tracker answers.
C26_TrackerHoursAll ==
    Tracked =>
        v_out.effort.github_hours =
            400 * v_in.gh.critical + 300 * v_in.gh.high + 200 * v_in.gh.medium
            + 100 * v_in.gh.low + 50 * v_in.gh.prs

\* C26, amended: the issue-tracker hours are that weighted sum over the
\* first SearchLimit issues and the first SearchLimit pull requests the
\* tracker lists; results beyond them count for nothing.
C26_TrackerHours ==
    Tracked =>
        /\ v_out.effort.github_hours =
               400 * v_in.gh.read.critical + 300 * v_in.gh.read.high
               + 200 * v_in.gh.read.medium + 100 * v_in.gh.read.low
               + 50 * v_in.gh.read.prs
        /\ v_out.effort.github_issues =
               v_in.gh.read.critical + v_in.gh.read.high + v_in.gh.read.medium
               + v_in.gh.read.low
        /\ v_out.effort.github_prs = v_in.gh.read.prs

\* the tracker listed SearchLimit low issues and then a critical one: 50 h
C26_Witness ==
    /\ Tracked
    /\ v_in.gh.low = SearchLimit
    /\ v_in.gh.critical = 1
    /\ v_out.effort.github_hours = 100 * SearchLimit
    /\ v_out.effort.github_issues = SearchLimit

\* C27: in every state run_agent returns, each action the tools node
\* dispatched during the run has its record, with status valid, in the
\* returned history, on the success path and on the error path.
C27_ExecutedAreRecordedValid ==
    pc = "returned" =>
        \A r \in 1..Len(executed) : \A i \in 1..Len(executed[r]) :
            /\ proposed[r].records[executed[r][i].id].status = "valid"
            /\ \E k \in 1..Len(result.tool_calls) :
                  result.tool_calls[k] = proposed[r].records[executed[r][i].id]

\* C28: every task created with an estimate adds that estimate to the
\* pending-task hours of the snapshot and 1 to its task count.
C28_CreatedTasksCounted ==
    (v_in.done /\ v_out.op = "effort") =>
        /\ v_out.effort.task_count = Len(v_in.estimates)
        /\ v_out.effort.pending_hours = Round1(SeqSum(v_in.estimates))

\* C29: in every snapshot the tier fits the total_hours the same snapshot
\* reports: low only below 4 hours, medium only from 4 and below 8, high
\* only from 8 and below 12, overloaded only from 12.
C29_TierFitsReportedTotal ==
    Aggregated =>
        /\ v_out.effort.effort_level = "low" => v_out.effort.total_hours < 400
        /\ v_out.effort.effort_level = "medium" =>
              (400 <= v_out.effort.total_hours /\ v_out.effort.total_hours < 800)
        /\ v_out.effort.effort_level = "high" =>
              (800 <= v_out.effort.total_hours /\ v_out.effort.total_hours < 1200)
        /\ v_out.effort.effort_level = "overloaded" => v_out.effort.total_hours >= 1200

\* C30: for every phrase that holds the word "tomorrow", at every clock
\* value, the resolver returns a timestamp on the day after now.
C30_TomorrowNextDay ==
    (v_in.done /\ Contains(Lower(v_in.phrase), P_tomorrow)) =>
        /\ ~v_out.raised
        /\ HasAt(v_out.value, 1, <<"D">> \o Digits(v_in.now.d + 1) \o <<"T">>)

============================================================================
